---- MODULE Spec2Model ----
(***************************************************************************)
(* io_mesh_cdb: the ANSYS cdb importer (import_cdb.py) and exporter        *)
(* (export_cdb.py).                                                        *)
(*                                                                         *)
(* Text is modelled character by character: a line is a sequence of        *)
(* one-character strings, a file a sequence of lines.  A Python tuple or   *)
(* list is a sequence, a dict a function, a set a set.  An element is      *)
(* <<mat, real, type, v1, ..., vn>>, so Python's e[k] is e[k + 1] here.    *)
(* A float is the pair <<m, e>> standing for m * 10^e, with m not          *)
(* divisible by 10 (zero is <<0, 0>>).                                     *)
(***************************************************************************)
EXTENDS Integers, Sequences, FiniteSets, TLC

VARIABLES
    global_n,           \* read3DMesh: node no. -> <<x, y, z>>
    global_e,           \* read3DMesh: element no. -> <<mat, real, type, v1, ..., vn>>
    global_et,          \* read3DMesh: element type no. -> element type
    remove_duplicates,  \* get_faces' argument
    counted_faces,      \* get_faces: <<mat, real>> -> (face -> count)
    outer_faces,        \* get_faces: <<mat, real>> -> set of faces
    verts,              \* renumber: <<mat, real>> -> sequence of coordinates
    faces,              \* renumber: <<mat, real>> -> sequence of index tuples
    pc,                 \* where the program is
    error,              \* the exception that ended the program, or "none"
    current_element,    \* module globals that readEN, readET, readTYPE, readMAT and
    current_type,       \*   readREAL declare global: Unassigned until first assigned,
    current_mat,        \*   kept from one call of read3DMesh to the next
    current_real,
    filehandle,         \* read3DMesh / write: "none", "open" or "closed"
    file,               \* the text of the cdb file, a sequence of lines
    pos,                \* the number of lines read from filehandle
    line,               \* read3DMesh: the line its loop holds, <<>> at the end
    write_n,            \* write: n, node number -> <<x, y, z>>
    write_f,            \* write: f, a list of lists of tuples of node numbers
    initial_mat,        \* write's arguments
    increment_mat,
    initial_real,
    increment_real,
    f_arg,              \* order_face: the tuple given
    r_arg,              \* order_face: a cyclic rotation of f_arg
    f_res,              \* order_face(f_arg)
    r_res               \* order_face(r_arg)

vars == <<global_n, global_e, global_et, remove_duplicates, counted_faces,
          outer_faces, verts, faces, pc, error, current_element, current_type,
          current_mat, current_real, filehandle, file, pos, line,
          write_n, write_f, initial_mat, increment_mat, initial_real,
          increment_real, f_arg, r_arg, f_res, r_res>>

tableVars == <<global_n, global_e, global_et>>
faceVars == <<remove_duplicates, counted_faces, outer_faces, verts, faces>>
moduleVars == <<current_element, current_type, current_mat, current_real>>
fileVars == <<filehandle, file, pos, line>>
writeVars == <<write_n, write_f, initial_mat, increment_mat, initial_real,
               increment_real>>
canonVars == <<f_arg, r_arg, f_res, r_res>>

\* A name that may not have been assigned yet: <<>>, or <<v>> once it holds v.
Unassigned == <<>>
Assigned(v) == <<v>>
IsAssigned(g) == Len(g) = 1
EmptyMap == [x \in {} |-> 0]

Range(s) == {s[i] : i \in DOMAIN s}

RECURSIVE SetToSeq(_)
SetToSeq(S) ==
    IF S = {} THEN <<>>
    ELSE LET x == CHOOSE y \in S : TRUE IN <<x>> \o SetToSeq(S \ {x})

Reverse(s) == [i \in 1..Len(s) |-> s[Len(s) + 1 - i]]

(***************************************************************************)
(* Strings: a string is a sequence of one-character strings                *)
(***************************************************************************)
Digits == <<"0", "1", "2", "3", "4", "5", "6", "7", "8", "9">>
Uppers == <<"A", "B", "C", "D", "E", "F", "G", "H", "I", "J", "K", "L", "M",
            "N", "O", "P", "Q", "R", "S", "T", "U", "V", "W", "X", "Y", "Z">>
Lowers == <<"a", "b", "c", "d", "e", "f", "g", "h", "i", "j", "k", "l", "m",
            "n", "o", "p", "q", "r", "s", "t", "u", "v", "w", "x", "y", "z">>

isdigit(c) == c \in Range(Digits)
isspace(c) == c \in {" ", "\n", "\t", "\r"}
DigitValue(c) == (CHOOSE i \in 1..10 : Digits[i] = c) - 1

lower_char(c) ==
    IF c \in Range(Uppers) THEN Lowers[CHOOSE i \in 1..26 : Uppers[i] = c] ELSE c

lower(s) == [i \in 1..Len(s) |-> lower_char(s[i])]

\* Python's s[a:b] for 0 <= a, 0 <= b: a slice past the end is cut short.
Slice(s, a, b) ==
    LET hi == IF b < Len(s) THEN b ELSE Len(s)
    IN  IF a >= hi THEN <<>> ELSE SubSeq(s, a + 1, hi)

\* s.strip(): s without the blanks at its two ends.
strip(s) ==
    LET inked == {i \in 1..Len(s) : ~isspace(s[i])}
    IN  IF inked = {} THEN <<>>
        ELSE SubSeq(s, CHOOSE i \in inked : \A j \in inked : i <= j,
                       CHOOSE i \in inked : \A j \in inked : j <= i)

\* s.split(sep) for a one-character sep: the pieces between the separators.
split(s, sep) ==
    LET at == {i \in 1..Len(s) : s[i] = sep}
        \* the position of the j-th separator; 0 and Len(s) + 1 bound the string
        Sep(j) == IF j = 0 THEN 0
                  ELSE IF j > Cardinality(at) THEN Len(s) + 1
                  ELSE CHOOSE i \in at : Cardinality({k \in at : k < i}) = j - 1
    IN  [j \in 1..(Cardinality(at) + 1) |-> SubSeq(s, Sep(j - 1) + 1, Sep(j) - 1)]

\* s.find(c) and s.rfind(c): the index from 0, or -1.
find(s, c) ==
    IF \E i \in 1..Len(s) : s[i] = c
    THEN (CHOOSE i \in 1..Len(s) : s[i] = c /\ \A j \in 1..(i - 1) : s[j] # c) - 1
    ELSE -1

rfind(s, c) ==
    IF \E i \in 1..Len(s) : s[i] = c
    THEN (CHOOSE i \in 1..Len(s) : s[i] = c /\ \A j \in (i + 1)..Len(s) : s[j] # c) - 1
    ELSE -1

RECURSIVE DigitsValue(_, _)
DigitsValue(s, acc) ==
    IF Len(s) = 0 THEN acc ELSE DigitsValue(Tail(s), 10 * acc + DigitValue(s[1]))

AllDigits(s) == Len(s) > 0 /\ \A i \in 1..Len(s) : isdigit(s[i])

Failed == [ok |-> FALSE, val |-> 0]
Value(v) == [ok |-> TRUE, val |-> v]

\* int(s): blanks around, an optional sign, decimal digits.  ok is FALSE
\* where int raises ValueError.  (Underscores between digits are not
\* modelled; no input of the model holds one.)
int_unsigned(negative, d) ==
    IF ~AllDigits(d) THEN Failed
    ELSE Value(IF negative THEN 0 - DigitsValue(d, 0) ELSE DigitsValue(d, 0))

int_signed(t) ==
    IF Len(t) > 0 /\ t[1] \in {"+", "-"}
    THEN int_unsigned(t[1] = "-", Tail(t))
    ELSE int_unsigned(FALSE, t)

int(s) == int_signed(strip(s))

RECURSIVE Normal(_, _)
Normal(m, e) ==
    IF m = 0 THEN <<0, 0>>
    ELSE IF m % 10 = 0 THEN Normal(m \div 10, e + 1)
    ELSE <<m, e>>

Float(i) == Normal(i, 0)

\* float(s): blanks around, an optional sign, digits with at most one point
\* and at least one digit, an optional exponent (e or E, an optional sign,
\* digits).  (inf and nan are not modelled; no input of the model holds one.)
\* The text is taken apart step by step: sign, exponent, point, digits.
float_digits(negative, exponent, whole, frac, digits) ==
    IF ~AllDigits(whole \o frac) \/ ~exponent.ok
    THEN [ok |-> FALSE, val |-> <<0, 0>>]
    ELSE Value(Normal(IF negative THEN 0 - DigitsValue(whole \o digits, 0)
                      ELSE DigitsValue(whole \o digits, 0),
                      exponent.val - Len(digits)))

\* digits is the fraction without the zeros that end it, which do not count
float_fraction(negative, exponent, whole, frac) ==
    float_digits(negative, exponent, whole, frac,
        IF \A i \in 1..Len(frac) : frac[i] = "0" THEN <<>>
        ELSE SubSeq(frac, 1, CHOOSE i \in 1..Len(frac) :
                                 /\ frac[i] # "0"
                                 /\ \A j \in (i + 1)..Len(frac) : frac[j] = "0"))

float_point(negative, exponent, d, p) ==
    float_fraction(negative, exponent,
        IF p < 0 THEN d ELSE Slice(d, 0, p),
        IF p < 0 THEN <<>> ELSE Slice(d, p + 1, Len(d)))

float_exponent(negative, u, x) ==
    float_point(negative,
        IF x < 0 THEN Value(0)
        ELSE IF \E i \in 1..Len(u) : isspace(u[i]) THEN Failed
        ELSE int(Slice(u, x + 1, Len(u))),
        IF x < 0 THEN u ELSE Slice(u, 0, x),
        find(IF x < 0 THEN u ELSE Slice(u, 0, x), "."))

float_unsigned(negative, u) == float_exponent(negative, u, find(u, "e"))

float_signed(t) ==
    float_unsigned(Len(t) > 0 /\ t[1] = "-",
                   IF Len(t) > 0 /\ t[1] \in {"+", "-"} THEN Tail(t) ELSE t)

float(s) == float_signed(lower(strip(s)))

(***************************************************************************)
(* read3DMesh: the command handlers                                        *)
(*                                                                         *)
(* A handler takes the parse state st and returns it changed:              *)
(*   st.global_n, st.global_e, st.global_et   the tables                   *)
(*   st.current_element, .current_type, .current_mat, .current_real        *)
(*                                            the module globals           *)
(*   st.error   "none", or the exception that escapes the handler, or      *)
(*              "NoReturn" when the handler never returns                  *)
(*   st.read    the number of calls of filehandle.readline() the handler   *)
(*              made                                                       *)
(* A block handler is given rest, the lines that follow the command line   *)
(* up to the end of the file; readline() returns "" after them.            *)
(***************************************************************************)
\* Lines 36-38: the locals of read3DMesh that readEN reads as defaults.  No
\* handler assigns them: readMAT, readREAL, readTYPE and readET declare their
\* names global and assign the module's variables instead.
local_current_mat == 1
local_current_real == 1
local_current_type == 1

Put(f, k, v) == [x \in DOMAIN f \cup {k} |-> IF x = k THEN v ELSE f[x]]

Raise(st, exc) == [st EXCEPT !.error = exc]

\* tokens[i] (from 0) converted inside a try block: a missing token raises
\* IndexError, which the bare except catches like ValueError.
IntAt(tokens, i) == IF i + 1 <= Len(tokens) THEN int(tokens[i + 1]) ELSE Failed
FloatOr0(x) == IF x.ok THEN x.val ELSE <<0, 0>>
FloatAt(tokens, i) ==
    IF i + 1 <= Len(tokens) THEN FloatOr0(float(tokens[i + 1])) ELSE <<0, 0>>

\* filehandle.readline() for the k-th line after the command line: "" at
\* the end of the file.
ReadLine(rest, k) == IF k <= Len(rest) THEN rest[k] ELSE <<>>

\* readN without its test of the type (lines 83-85): what the node table would
\* be if ANG lines were stored like LOC lines.
readN_any_type(st, tokens) ==
    IF Len(tokens) < 4 THEN st
    ELSE LET node_number == int(tokens[4]) IN
         IF ~node_number.ok \/ node_number.val <= 0 THEN st
         ELSE [st EXCEPT !.global_n =
                  Put(@, node_number.val,
                      <<FloatAt(tokens, 6), FloatAt(tokens, 7), FloatAt(tokens, 8)>>)]

readN(st, tokens) ==
    IF Len(tokens) < 4 THEN st
    ELSE IF tokens[3] # <<"l", "o", "c">> THEN st
    ELSE LET node_number == int(tokens[4]) IN
         IF ~node_number.ok \/ node_number.val <= 0 THEN st
         ELSE [st EXCEPT !.global_n =
                  Put(@, node_number.val,
                      <<FloatAt(tokens, 6), FloatAt(tokens, 7), FloatAt(tokens, 8)>>)]

\* Lines 161-165: the node numbers of tokens[4:], or failure.
\* a variant that keeps the node ids read before the token that failed
RECURSIVE en_nodes_up_to_failure(_, _, _)
en_nodes_up_to_failure(tokens, i, element_data) ==
    IF i > Len(tokens) - 4 - 1 THEN [ok |-> TRUE, val |-> element_data]
    ELSE IF ~int(tokens[i + 4 + 1]).ok THEN [ok |-> TRUE, val |-> element_data]
    ELSE en_nodes_up_to_failure(tokens, i + 1,
                                Append(element_data, int(tokens[i + 4 + 1]).val))

RECURSIVE en_nodes(_, _, _)
en_nodes(tokens, i, element_data) ==
    IF i > Len(tokens) - 4 - 1 THEN [ok |-> TRUE, val |-> element_data]
    ELSE LET v == int(tokens[i + 4 + 1]) IN
         IF ~v.ok THEN [ok |-> FALSE, val |-> element_data]
         ELSE en_nodes(tokens, i + 1, Append(element_data, v.val))

readEN(st, tokens) ==
    IF Len(tokens) < 4 THEN st
    ELSE IF tokens[3] = <<"a", "t", "t", "r">> THEN
        LET mat == IntAt(tokens, 4)
            type == IntAt(tokens, 5)
            real == IntAt(tokens, 6)
            num == IntAt(tokens, 9)
            element_mat == IF mat.ok THEN mat.val ELSE local_current_mat
            element_type == IF type.ok THEN type.val ELSE local_current_type
            element_real == IF real.ok THEN real.val ELSE local_current_real
        IN  IF ~num.ok /\ ~IsAssigned(st.current_element)
            THEN Raise(st, "NameError")    \* line 147 reads the unassigned global
            ELSE LET element_number == IF num.ok THEN num.val ELSE st.current_element[1]
                     old == st.global_e
                     element_data ==
                         IF element_number \in DOMAIN old /\ Len(old[element_number]) >= 3
                         THEN [old[element_number] EXCEPT ![1] = element_mat,
                                                          ![2] = element_real,
                                                          ![3] = element_type]
                         ELSE <<element_mat, element_real, element_type>>
                 IN  [st EXCEPT !.current_element = Assigned(element_number),
                                !.global_e = Put(@, element_number, element_data)]
    ELSE IF tokens[3] = <<"n", "o", "d", "e">> THEN
        IF ~IsAssigned(st.current_element)
        THEN Raise(st, "NameError")        \* line 159 reads the unassigned global
        ELSE LET element_number == st.current_element[1]
                 start == IF element_number \in DOMAIN st.global_e
                          THEN st.global_e[element_number]
                          ELSE <<local_current_mat, local_current_real, local_current_type>>
                 r == en_nodes(tokens, 0, start)
             IN  IF ~r.ok THEN st
                 ELSE [st EXCEPT !.global_e = Put(@, element_number, r.val)]
    ELSE st

\* Lines 187-195: the four parts of one format such as 3i8 or 6e16.9.
RECURSIVE scan_form(_, _, _)
scan_form(raw_form, i, a) ==
    IF i > Len(raw_form) THEN a
    ELSE LET c == raw_form[i] IN
         scan_form(raw_form, i + 1,
            IF Len(a.str_type) = 0 /\ isdigit(c)
            THEN [a EXCEPT !.raw_count = Append(@, c)]
            ELSE IF Len(a.raw_identifier1) = 0 /\ ~isdigit(c)
            THEN [a EXCEPT !.str_type = Append(@, c)]
            ELSE IF Len(a.raw_identifier2) = 0 /\ c # "."
            THEN [a EXCEPT !.raw_identifier1 = Append(@, c)]
            ELSE [a EXCEPT !.raw_identifier2 = Append(@, c)])

RECURSIVE strip_dots(_)
strip_dots(s) ==
    IF Len(s) > 0 /\ s[1] = "." THEN strip_dots(Tail(s))
    ELSE IF Len(s) > 0 /\ s[Len(s)] = "." THEN strip_dots(SubSeq(s, 1, Len(s) - 1))
    ELSE s

\* Lines 196-205: the forms one format stands for, none when it does not parse.
expand_form(raw_form) ==
    LET a == scan_form(raw_form, 1,
                 [raw_count |-> <<>>, str_type |-> <<>>,
                  raw_identifier1 |-> <<>>, raw_identifier2 |-> <<>>])
        count == int(a.raw_count)
        identifier1 == int(a.raw_identifier1)
        identifier2 == IF Len(a.raw_identifier2) > 0
                       THEN int(strip_dots(a.raw_identifier2)) ELSE Value(0)
    IN  IF count.ok /\ identifier1.ok /\ identifier2.ok
        THEN [i \in 1..count.val |-> <<a.str_type, identifier1.val, identifier2.val>>]
        ELSE <<>>

RECURSIVE expand_forms(_, _)
expand_forms(line_split, i) ==
    IF i > Len(line_split) THEN <<>>
    ELSE expand_form(line_split[i]) \o expand_forms(line_split, i + 1)

detectFormat(format_line) ==
    IF Len(format_line) < 3 THEN <<>>
    ELSE LET r1 == find(format_line, "(")
             r == rfind(format_line, ")")
             r2 == IF r < 0 THEN Len(format_line) ELSE r
         IN  expand_forms(split(Slice(format_line, r1 + 1, r2), ","), 1)

\* Lines 228-254: the node lines from the k-th line of rest on.
RECURSIVE nblock_loop(_, _, _, _)
nblock_loop(st, forms, rest, k) ==
    LET node_line == ReadLine(rest, k)
        start_x == forms[1][2] + forms[2][2] + forms[3][2]
        start_y == start_x + forms[4][2]
        start_z == start_y + forms[5][2]
        end_z == start_z + forms[6][2]
    IN  IF Len(node_line) = 0 THEN [st EXCEPT !.read = k]
        ELSE IF Len(strip(node_line)) = 0
        THEN [Raise(st, "IndexError") EXCEPT !.read = k]   \* ""[0]
        ELSE IF lower_char(strip(node_line)[1]) = "n" THEN [st EXCEPT !.read = k]
        ELSE LET node_number == int(Slice(node_line, 0, forms[1][2]))
                 x == float(Slice(node_line, start_x, start_y))
                 y == float(Slice(node_line, start_y, start_z))
                 z == float(Slice(node_line, start_z, end_z))
             IN  IF ~node_number.ok THEN nblock_loop(st, forms, rest, k + 1)
                 ELSE nblock_loop(
                        [st EXCEPT !.global_n =
                            Put(@, node_number.val,
                                <<IF x.ok THEN x.val ELSE <<0, 0>>,
                                  IF y.ok THEN y.val ELSE <<0, 0>>,
                                  IF z.ok THEN z.val ELSE <<0, 0>>>>)],
                        forms, rest, k + 1)

readNBLOCK(st, tokens, rest) ==
    LET forms == detectFormat(ReadLine(rest, 1))
        st1 == [st EXCEPT !.read = 1]
    IN  IF Len(forms) < 6 THEN st1
        ELSE nblock_loop(st1, forms, rest, 2)

\* Lines 320-327: fields i.. (from 0) of one SOLID record.  r.field is the
\* local 'field', unassigned until an int() has succeeded in this call of
\* readEBLOCK (Unassigned, or Assigned(v)); it keeps its value from field to
\* field and record to record.
RECURSIVE solid_fields(_, _, _, _, _)
solid_fields(Num_fields, forms, element_line, i, r) ==
    IF i >= Num_fields \/ r.error # "none" THEN r
    ELSE LET known == i + 1 <= Len(forms)
             end == IF known THEN r.start + forms[i + 1][2] ELSE r.end
             v == IF known THEN int(Slice(element_line, r.start, end)) ELSE Failed
             field == IF v.ok THEN Assigned(v.val) ELSE r.field
         IN  IF ~IsAssigned(field)
             THEN [r EXCEPT !.error = "UnboundLocalError"]   \* line 326
             ELSE solid_fields(Num_fields, forms, element_line, i + 1,
                      [r EXCEPT !.fields = Append(@, field[1]), !.field = field,
                                !.start = end, !.end = end])

\* Lines 354-361: the fields of one record without SOLID; ok is FALSE where
\* the code returns.
RECURSIVE plain_fields(_, _, _, _, _)
plain_fields(Num_fields, forms, element_line, i, r) ==
    IF i >= Num_fields \/ ~r.ok THEN r
    ELSE IF i + 1 > Len(forms) THEN [r EXCEPT !.ok = FALSE]
    ELSE LET end == r.start + forms[i + 1][2]
             v == int(Slice(element_line, r.start, end))
         IN  IF ~v.ok THEN [r EXCEPT !.ok = FALSE]
             ELSE plain_fields(Num_fields, forms, element_line, i + 1,
                      [r EXCEPT !.fields = Append(@, v.val), !.start = end])

Store(st, element_number, element_mat, element_real, element_type, element_nodes) ==
    [st EXCEPT !.global_e =
        Put(@, element_number,
            <<element_mat, element_real, element_type>> \o element_nodes)]

\* Lines 292-372: the records from the k-th line of rest on; field is the
\* local 'field' as the records before left it.
RECURSIVE eblock_loop(_, _, _, _, _, _, _)
eblock_loop(st, Num_fields, isSOLID, forms, rest, k, field) ==
    LET element_line == ReadLine(rest, k)
        at_end == k > Len(rest)
        here == [st EXCEPT !.read = k]
    IN
    IF Len(strip(element_line)) > 0 /\ strip(element_line)[1] = "-" THEN here
    ELSE IF isSOLID THEN
        LET r == solid_fields(Num_fields, forms, element_line, 0,
                     [fields |-> <<>>, field |-> field, start |-> 0, end |-> 0,
                      error |-> "none"])
            fields == r.fields
        IN  IF r.error # "none" THEN Raise(here, r.error)
            ELSE IF Len(fields) < 8 THEN here
            ELSE IF Len(fields) < 9 THEN Raise(here, "IndexError")   \* fields[8]
            \* Lines 332-342: field_count is never changed ('++field_count'
            \* is no assignment) and start stays 0, so the loop is never left.
            ELSE IF Len(fields) < fields[9] + 11 THEN Raise(here, "NoReturn")
            ELSE IF Len(fields) < 11 THEN here                       \* fields[10]
            ELSE LET st1 == Store(here, fields[11], fields[1], fields[3], fields[2],
                                  SubSeq(fields, 12, Len(fields)))
                 \* at the end of the file readline() returns "" again and
                 \* again, and each time the same record is stored
                 IN  IF at_end THEN Raise(st1, "NoReturn")
                     ELSE eblock_loop(st1, Num_fields, isSOLID, forms, rest,
                                      k + 1, r.field)
    ELSE
        LET r == plain_fields(Num_fields, forms, element_line, 0,
                     [fields |-> <<>>, start |-> 0, ok |-> TRUE])
            fields == r.fields
        IN  IF ~r.ok \/ Len(fields) < 4 THEN here
            ELSE eblock_loop(Store(here, fields[1], fields[4], fields[3], fields[2],
                                   SubSeq(fields, 6, Len(fields))),
                             Num_fields, isSOLID, forms, rest, k + 1, field)

readEBLOCK(st, tokens, rest) ==
    IF Len(tokens) < 3 THEN st
    ELSE LET Num_fields == int(tokens[2]) IN
         IF ~Num_fields.ok THEN st
         ELSE LET isSOLID == tokens[3] = <<"s", "o", "l", "i", "d">>
                  forms == detectFormat(ReadLine(rest, 1))
                  st1 == [st EXCEPT !.read = 1]
              IN  IF (isSOLID /\ Len(forms) < 12) \/ Len(forms) < 6 THEN st1
                  ELSE eblock_loop(st1, Num_fields.val, isSOLID, forms, rest, 2,
                                   Unassigned)

readET(st, tokens) ==
    IF Len(tokens) < 3 THEN st
    \* Lines 385-389 and 397: with an empty ITYPE et_type is never assigned,
    \* and line 397 reads it.
    ELSE IF Len(tokens[2]) = 0 THEN Raise(st, "UnboundLocalError")
    ELSE LET et_number == int(tokens[2])
             et_type == int(tokens[3])
         IN  IF ~et_number.ok \/ ~et_type.ok THEN st
             ELSE [st EXCEPT !.global_et = Put(@, et_number.val, et_type.val),
                             !.current_type = Assigned(et_number.val)]

readTYPE(st, tokens) ==
    IF IntAt(tokens, 1).ok THEN [st EXCEPT !.current_type = Assigned(IntAt(tokens, 1).val)]
    ELSE st

readMAT(st, tokens) ==
    IF IntAt(tokens, 1).ok THEN [st EXCEPT !.current_mat = Assigned(IntAt(tokens, 1).val)]
    ELSE st

readREAL(st, tokens) ==
    IF IntAt(tokens, 1).ok THEN [st EXCEPT !.current_real = Assigned(IntAt(tokens, 1).val)]
    ELSE st

\* Lines 44-48: the tokens of a command line and its command.
Tokens(first_line) ==
    LET t == split(first_line, ",") IN [i \in 1..Len(t) |-> lower(strip(t[i]))]

Command(first_line) == Tokens(first_line)[1]

Commands ==
    { <<"n">>, <<"e", "n">>, <<"n", "b", "l", "o", "c", "k">>,
      <<"e", "b", "l", "o", "c", "k">>, <<"e", "t">>, <<"t", "y", "p", "e">>,
      <<"m", "a", "t">>, <<"r", "e", "a", "l">> }

parseCommand(st, first_line, rest) ==
    LET tokens == Tokens(first_line)
        command == tokens[1]
    IN  IF command = <<"n">> THEN readN(st, tokens)
        ELSE IF command = <<"e", "n">> THEN readEN(st, tokens)
        ELSE IF command = <<"n", "b", "l", "o", "c", "k">> THEN readNBLOCK(st, tokens, rest)
        ELSE IF command = <<"e", "b", "l", "o", "c", "k">> THEN readEBLOCK(st, tokens, rest)
        ELSE IF command = <<"e", "t">> THEN readET(st, tokens)
        ELSE IF command = <<"t", "y", "p", "e">> THEN readTYPE(st, tokens)
        ELSE IF command = <<"m", "a", "t">> THEN readMAT(st, tokens)
        ELSE IF command = <<"r", "e", "a", "l">> THEN readREAL(st, tokens)
        ELSE st

(***************************************************************************)
(* get_faces: canonical faces                                              *)
(***************************************************************************)

\* The loop of order_face: the index (from 1) of the lowest number among the
\* first k entries, the earliest one when it occurs more than once.
RECURSIVE MinIndex(_, _)
MinIndex(f, k) ==
    IF k = 1 THEN 1
    ELSE LET m == MinIndex(f, k - 1) IN IF f[k] < f[m] THEN k ELSE m

order_face(f) ==
    IF Len(f) = 0 THEN <<>>
    ELSE LET min_index == MinIndex(f, Len(f)) - 1
         IN  [i \in 1..Len(f) |->
                LET index == min_index + (i - 1)
                IN  f[(IF index >= Len(f) THEN index - Len(f) ELSE index) + 1]]

\* the plain reversal of f, which does not keep the first node in place
inverse_face_whole(f) == Reverse(f)

inverse_face(f) ==
    IF Len(f) = 0 THEN <<>>
    ELSE [i \in 1..Len(f) |-> IF i = 1 THEN f[1] ELSE f[Len(f) - (i - 2)]]

faces_on_8hexahedral(v1, v2, v3, v4, v5, v6, v7, v8) ==
    << order_face(<<v1, v4, v3, v2>>),
       order_face(<<v1, v2, v6, v5>>),
       order_face(<<v2, v3, v7, v6>>),
       order_face(<<v3, v4, v8, v7>>),
       order_face(<<v4, v1, v5, v8>>),
       order_face(<<v5, v6, v7, v8>>) >>

faces_on_6wedge(v1, v2, v3, v4, v5, v6) ==
    << order_face(<<v1, v3, v2>>),
       order_face(<<v1, v2, v5, v4>>),
       order_face(<<v2, v3, v6, v5>>),
       order_face(<<v3, v1, v4, v6>>),
       order_face(<<v4, v5, v6>>) >>

faces_on_5pyramid(v1, v2, v3, v4, v5) ==
    << order_face(<<v1, v4, v3, v2>>),
       order_face(<<v1, v2, v5>>),
       order_face(<<v2, v3, v5>>),
       order_face(<<v3, v4, v5>>),
       order_face(<<v4, v1, v5>>) >>

faces_on_4tetrahedral(v1, v2, v3, v4) ==
    << order_face(<<v1, v3, v2>>),
       order_face(<<v1, v2, v4>>),
       order_face(<<v2, v3, v4>>),
       order_face(<<v3, v1, v4>>) >>

faces_on_20hexahedral(n) ==
    LET v1 == n[1]    v2 == n[2]    v3 == n[3]    v4 == n[4]
        v5 == n[5]    v6 == n[6]    v7 == n[7]    v8 == n[8]
        v12 == n[9]   v23 == n[10]  v34 == n[11]  v14 == n[12]
        v56 == n[13]  v67 == n[14]  v78 == n[15]  v58 == n[16]
        v15 == n[17]  v26 == n[18]  v37 == n[19]  v48 == n[20]
    IN  << order_face(<<v1, v14, v4, v34, v3, v23, v2, v12>>),
           order_face(<<v1, v12, v2, v26, v6, v56, v5, v15>>),
           order_face(<<v2, v23, v3, v37, v7, v67, v6, v26>>),
           order_face(<<v3, v34, v4, v48, v8, v78, v7, v37>>),
           order_face(<<v4, v14, v1, v15, v5, v58, v8, v48>>),
           order_face(<<v5, v56, v6, v67, v7, v78, v8, v58>>) >>

faces_on_13pyramid(n) ==
    LET v1 == n[1]    v2 == n[2]    v3 == n[3]    v4 == n[4]    v5 == n[5]
        v12 == n[6]   v23 == n[7]   v34 == n[8]   v14 == n[9]
        v15 == n[10]  v25 == n[11]  v35 == n[12]  v45 == n[13]
    IN  << order_face(<<v1, v14, v4, v34, v3, v23, v2, v12>>),
           order_face(<<v1, v12, v2, v25, v5, v15>>),
           order_face(<<v2, v23, v3, v35, v5, v25>>),
           order_face(<<v3, v34, v4, v45, v5, v35>>),
           order_face(<<v4, v14, v1, v15, v5, v45>>) >>

faces_on_10tetrahedral(n) ==
    LET v1 == n[1]   v2 == n[2]   v3 == n[3]   v4 == n[4]
        v12 == n[5]  v23 == n[6]  v13 == n[7]
        v14 == n[8]  v24 == n[9]  v34 == n[10]
    IN  << order_face(<<v1, v13, v3, v23, v2, v12>>),
           order_face(<<v1, v12, v2, v24, v4, v14>>),
           order_face(<<v2, v23, v3, v34, v4, v24>>),
           order_face(<<v3, v13, v1, v14, v4, v34>>) >>

faces_on_4rectangle(v1, v2, v3, v4) == << order_face(<<v1, v2, v3, v4>>) >>

faces_on_3triangle(v1, v2, v3) == << order_face(<<v1, v2, v3>>) >>

faces_on_8rectangle(v1, v2, v3, v4, v12, v23, v34, v14) ==
    << order_face(<<v1, v12, v2, v23, v3, v34, v4, v14>>) >>

\* faces_on_15wedge names v32, v21, v54 and v41, which are not its parameters
\* nor names of any enclosing scope: every call raises NameError.
faces_on_15wedge(n) == [kind |-> "NameError", faces |-> <<>>]

faces_on_6triangle(v1, v12, v2, v23, v3, v13) ==
    << order_face(<<v1, v12, v2, v23, v3, v13>>) >>

(***************************************************************************)
(* get_faces: the faces of one element, the counts, the outer faces        *)
(***************************************************************************)
Faces(fs) == [kind |-> "faces", faces |-> fs]
Continue == [kind |-> "continue", faces |-> <<>>]
NameError == [kind |-> "NameError", faces |-> <<>>]
UnboundLocalError == [kind |-> "UnboundLocalError", faces |-> <<>>]

\* The body of get_all_faces' loop up to the counting: the faces of element
\* e, Continue where the code says continue, NameError or UnboundLocalError
\* where it raises.  v13 is the local of get_all_faces of that name, which
\* only line 680 assigns.
element_faces(e, et, v13) ==
    IF Len(e) < 3 \/ e[3] \notin DOMAIN et THEN Continue
    ELSE LET etype == et[e[3]]
             n == SubSeq(e, 4, Len(e))
         IN
         IF etype \in {28, 63, 152} THEN
             IF Len(e) < 7 THEN Continue
             ELSE IF n[3] = n[4] THEN Faces(faces_on_3triangle(n[1], n[2], n[3]))
             ELSE Faces(faces_on_4rectangle(n[1], n[2], n[3], n[4]))
         ELSE IF etype \in {93, 281} THEN
             IF Len(e) < 11 THEN Continue
             \* line 647 reads v13, which line 646 did not assign: it is
             \* unbound, or what an earlier 10-node tetrahedron left in it
             ELSE IF n[3] = n[4] THEN
                 IF IsAssigned(v13)
                 THEN Faces(faces_on_6triangle(n[1], n[5], n[2], n[6], n[3], v13[1]))
                 ELSE UnboundLocalError
             ELSE Faces(faces_on_8rectangle(n[1], n[2], n[3], n[4],
                                            n[5], n[6], n[7], n[8]))
         ELSE IF etype \in {45, 185} THEN
             IF Len(e) < 11 THEN Continue
             ELSE IF n[3] = n[4] /\ n[7] = n[8] THEN
                 Faces(faces_on_6wedge(n[1], n[2], n[3], n[5], n[6], n[7]))
             ELSE IF n[5] = n[6] /\ n[5] = n[7] /\ n[5] = n[8] THEN
                 Faces(faces_on_5pyramid(n[1], n[2], n[3], n[4], n[5]))
             ELSE IF n[3] = n[4] /\ n[5] = n[6] /\ n[5] = n[7] /\ n[5] = n[8] THEN
                 Faces(faces_on_4tetrahedral(n[1], n[2], n[3], n[5]))
             ELSE Faces(faces_on_8hexahedral(n[1], n[2], n[3], n[4],
                                             n[5], n[6], n[7], n[8]))
         ELSE IF etype \in {95, 186} THEN
             IF Len(e) < 23 THEN Continue
             ELSE IF n[3] = n[4] /\ n[7] = n[8] THEN
                 \* the value of the call is not assigned: faces stays []
                 LET r == faces_on_15wedge(<<n[1], n[2], n[3], n[5], n[6], n[7],
                                             n[9], n[10], n[12], n[13], n[14],
                                             n[16], n[17], n[18], n[19]>>)
                 IN  IF r.kind = "NameError" THEN NameError ELSE Faces(<<>>)
             ELSE IF n[5] = n[6] /\ n[5] = n[7] /\ n[5] = n[8] THEN
                 Faces(faces_on_13pyramid(<<n[1], n[2], n[3], n[4], n[5],
                                            n[9], n[10], n[11], n[12],
                                            n[17], n[18], n[19], n[20]>>))
             ELSE IF n[3] = n[4] /\ n[5] = n[6] /\ n[5] = n[7] /\ n[5] = n[8] THEN
                 Faces(faces_on_10tetrahedral(<<n[1], n[2], n[3], n[5], n[9],
                                                n[10], n[12], n[17], n[18], n[19]>>))
             ELSE Faces(faces_on_20hexahedral(SubSeq(n, 1, 20)))
         ELSE IF etype \in {92, 187} THEN
             IF Len(e) < 13 THEN Continue
             ELSE Faces(faces_on_10tetrahedral(SubSeq(n, 1, 10)))
         ELSE Continue

\* Lines 690-695: one more occurrence of each face of fs[i..].
RECURSIVE count_faces(_, _, _)
count_faces(counts, fs, i) ==
    IF i > Len(fs) THEN counts
    ELSE LET face == fs[i]
             face_count == IF face \in DOMAIN counts THEN counts[face] ELSE 0
         IN  count_faces([x \in DOMAIN counts \cup {face} |->
                            IF x = face THEN face_count + 1 ELSE counts[x]],
                         fs, i + 1)

\* Line 680: a 10-node tetrahedron assigns v13, no other element does.
v13_after(e, et, v13) ==
    IF Len(e) >= 13 /\ e[3] \in DOMAIN et /\ et[e[3]] \in {92, 187}
    THEN Assigned(e[10])
    ELSE v13

\* get_all_faces over the elements es[i..]: the counts, or the exception.
RECURSIVE get_all_faces(_, _, _, _, _)
get_all_faces(es, et, i, counted, v13) ==
    IF i > Len(es) THEN [kind |-> "ok", counted |-> counted]
    ELSE LET e == es[i]
             r == element_faces(e, et, v13)
         IN  IF r.kind \in {"NameError", "UnboundLocalError"}
             THEN [kind |-> r.kind, counted |-> counted]
             ELSE IF r.kind = "continue" THEN get_all_faces(es, et, i + 1, counted, v13)
             ELSE LET element_id == <<e[1], e[2]>>
                      old == IF element_id \in DOMAIN counted
                             THEN counted[element_id] ELSE EmptyMap
                      new == count_faces(old, r.faces, 1)
                  IN  get_all_faces(es, et, i + 1,
                          [g \in DOMAIN counted \cup {element_id} |->
                              IF g = element_id THEN new ELSE counted[g]],
                          v13_after(e, et, v13))

\* get_outer_faces without its test of the count (remove_duplicates ignored)
get_outer_faces_any_count(counted, remove_dup) ==
    [element_id \in DOMAIN counted |->
        {f \in DOMAIN counted[element_id] :
            inverse_face(f) \notin DOMAIN counted[element_id]}]

get_outer_faces(counted, remove_dup) ==
    [element_id \in DOMAIN counted |->
        {f \in DOMAIN counted[element_id] :
            /\ inverse_face(f) \notin DOMAIN counted[element_id]
            /\ ((~remove_dup) \/ counted[element_id][f] = 1)}]

\* global_e.values(): the elements in the dict's order, which is the order
\* of the element numbers for a file that defines them in that order.
Values(e_tab) == LET ids == SetToSeq(DOMAIN e_tab)
                 IN  [i \in 1..Len(ids) |-> e_tab[ids[i]]]

(***************************************************************************)
(* renumber                                                                *)
(***************************************************************************)
\* Lines 729-736 for the nodes f[i..] of one face.  st.ok is FALSE once
\* global_n[v] raised KeyError.
RECURSIVE renumber_face(_, _, _, _)
renumber_face(n, f, i, st) ==
    IF i > Len(f) \/ ~st.ok THEN st
    ELSE LET v == f[i] IN
         IF v \notin DOMAIN n THEN [st EXCEPT !.ok = FALSE]
         ELSE LET coord == n[v] IN
              IF coord \in DOMAIN st.vert_coords
              THEN renumber_face(n, f, i + 1,
                       [st EXCEPT !.face = Append(@, st.vert_coords[coord])])
              ELSE renumber_face(n, f, i + 1,
                       [st EXCEPT
                          !.vert_coords = [c \in DOMAIN @ \cup {coord} |->
                                             IF c = coord THEN st.index_number ELSE @[c]],
                          !.index_number = @ + 1,
                          !.verts = Append(@, coord),
                          !.face = Append(@, st.index_number)])

\* Lines 727-738 for the faces fs[i..] of one face_type.
RECURSIVE renumber_faces(_, _, _, _)
renumber_faces(n, fs, i, st) ==
    IF i > Len(fs) \/ ~st.ok THEN st
    ELSE LET r == renumber_face(n, fs[i], 1, [st EXCEPT !.face = <<>>])
         IN  renumber_faces(n, fs, i + 1,
                 IF r.ok THEN [r EXCEPT !.faces = Append(@, r.face)] ELSE r)

\* Lines 722-738 for one face_type, its faces visited in the order fs.
renumber_group(n, fs) ==
    renumber_faces(n, fs, 1,
        [ok |-> TRUE, index_number |-> 0, vert_coords |-> EmptyMap,
         verts |-> <<>>, face |-> <<>>, faces |-> <<>>])

\* The order in which a set of faces is iterated is the interpreter's: the
\* model takes an enumeration of the set, forwards or backwards.
IterationOrder(S, backwards) ==
    IF backwards THEN Reverse(SetToSeq(S)) ELSE SetToSeq(S)

renumber(n, global_faces, backwards) ==
    LET r == [face_type \in DOMAIN global_faces |->
                 renumber_group(n, IterationOrder(global_faces[face_type], backwards))]
    IN  [ok |-> \A face_type \in DOMAIN r : r[face_type].ok,
         verts |-> [face_type \in DOMAIN r |-> r[face_type].verts],
         faces |-> [face_type \in DOMAIN r |-> r[face_type].faces]]

(***************************************************************************)
(* get_faces and renumber on tables drawn from bounded sets                *)
(***************************************************************************)
MaxElems == 2

\* Elements as read3DMesh stores them, over the node numbers 1..20.
ElemPool ==
    << <<1, 1, 1, 1, 2, 3, 4, 5, 6, 7, 8>>,          \* a hexahedron
       <<1, 1, 1, 5, 6, 7, 8, 9, 10, 11, 12>>,       \* the hexahedron on top of it
       <<1, 1, 1, 5, 8, 7, 6, 9, 12, 11, 10>>,       \* the same wound inwards
       <<1, 1, 1, 2, 3, 4, 1, 6, 7, 8, 5>>,          \* the first, slots rotated
       <<1, 1, 1, 6, 7, 8, 5, 10, 11, 12, 9>>,       \* the one on top of that
       <<1, 1, 1, 12, 11, 10, 9, 4, 3, 2, 1>>,
       <<1, 1, 1, 4, 3, 2, 1, 8, 7, 6, 5>>,
       <<2, 1, 1, 5, 6, 7, 8, 9, 10, 11, 12>>,       \* another material
       <<1, 1, 1, 1, 2, 3, 3, 4, 4, 4, 4>>,          \* collapsed to a tetrahedron
       <<1, 1, 1, 1, 2, 3, 3, 5, 6, 7, 7>>,          \* collapsed to a wedge
       <<1, 1, 1, 1, 2, 3, 4, 5, 5, 5, 5>>,          \* collapsed to a pyramid
       <<1, 1, 5, 1, 2, 3, 4, 5, 6, 7, 8, 9, 10>>,   \* 10-node tetrahedron
       <<1, 1, 2, 5, 6, 7, 8>>,                      \* shells
       <<1, 1, 2, 5, 8, 7, 6>>,
       <<1, 2, 2, 1, 2, 3, 3>>,
       <<1, 1, 3, 1, 2, 3, 4, 5, 6, 7, 8>>,          \* shells with midside nodes
       <<1, 1, 3, 1, 2, 3, 3, 5, 6, 7, 8>>,
       <<1, 1, 4, 1, 2, 3, 4, 5, 6, 7, 8, 9, 10,
         11, 12, 13, 14, 15, 16, 17, 18, 19, 20>>,   \* 20-node solids
       <<1, 1, 4, 1, 2, 3, 3, 5, 6, 7, 7, 9, 10,
         11, 12, 13, 14, 15, 16, 17, 18, 19, 20>>,
       <<1, 1, 4, 1, 2, 3, 4, 5, 5, 5, 5, 9, 10,
         11, 12, 13, 14, 15, 16, 17, 18, 19, 20>>,
       <<1, 1, 9, 1, 2, 3, 4>>,                      \* a type never defined
       <<1, 1, 1, 1, 2, 3>> >>                       \* too few nodes for its type

\* Element tables: elements 1..k, taken in the pool's order.  The faces
\* depend on the order only through v13, which a 10-node tetrahedron leaves
\* to the shells after it: the pool has the tetrahedron before the shells.
ElementTables ==
    UNION { { [i \in 1..k |-> ElemPool[ix[i]]] :
                ix \in { jx \in [1..k -> 1..Len(ElemPool)] :
                           \A i \in 1..(k - 1) : jx[i] <= jx[i + 1] } }
            : k \in 1..MaxElems }

TypeTables ==
    { (1 :> 45) @@ (2 :> 63) @@ (3 :> 93) @@ (4 :> 186) @@ (5 :> 187),
      (1 :> 185) @@ (2 :> 28) @@ (3 :> 281) @@ (4 :> 95) @@ (5 :> 92) }

NodeIds == 1..20

\* Node tables: every node at its own place; nodes 1 and 2, and 5 and 6, at
\* the same place; node 3 never defined.
NodeTables ==
    { [v \in NodeIds |-> <<Float(v), Float(0), Float(0)>>],
      [v \in NodeIds |-> <<Float(IF v \in {2, 6} THEN v - 1 ELSE v), Float(0), Float(0)>>],
      [v \in NodeIds \ {3} |-> <<Float(v), Float(0), Float(0)>>] }

NoFaces ==
    /\ counted_faces = EmptyMap
    /\ outer_faces = EmptyMap
    /\ verts = EmptyMap
    /\ faces = EmptyMap

\* No file is read or written.
NoFile ==
    /\ current_element = Unassigned
    /\ current_type = Unassigned
    /\ current_mat = Unassigned
    /\ current_real = Unassigned
    /\ filehandle = "none"
    /\ file = <<>>
    /\ pos = 0
    /\ line = <<>>

\* Nothing is to be written.
NoWrite ==
    /\ write_n = EmptyMap
    /\ write_f = <<>>
    /\ initial_mat = 1
    /\ increment_mat = FALSE
    /\ initial_real = 1
    /\ increment_real = FALSE

NoCanon ==
    /\ f_arg = <<>>
    /\ r_arg = <<>>
    /\ f_res = <<>>
    /\ r_res = <<>>

InitFaces ==
    /\ global_e \in ElementTables
    /\ global_et \in TypeTables
    /\ global_n \in NodeTables
    /\ remove_duplicates \in BOOLEAN
    /\ pc = "get_faces"
    /\ error = "none"
    /\ NoFaces
    /\ NoFile
    /\ NoWrite
    /\ NoCanon

\* readMesh, line 750: f = get_faces(e, et, remove_duplicates)
GetFaces ==
    /\ pc = "get_faces"
    /\ LET r == get_all_faces(Values(global_e), global_et, 1, EmptyMap, Unassigned) IN
       IF r.kind # "ok"
       THEN /\ pc' = "raised"
            /\ error' = r.kind
            /\ UNCHANGED <<counted_faces, outer_faces>>
       ELSE /\ counted_faces' = r.counted
            /\ outer_faces' = get_outer_faces(r.counted, remove_duplicates)
            /\ pc' = "renumber"
            /\ error' = "none"
    /\ UNCHANGED <<tableVars, remove_duplicates, verts, faces, moduleVars,
                   fileVars, writeVars, canonVars>>

\* readMesh, line 751: verts, faces = renumber(n, f)
Renumber ==
    /\ pc = "renumber"
    /\ \E backwards \in BOOLEAN :
         LET r == renumber(global_n, outer_faces, backwards) IN
         IF r.ok
         THEN /\ verts' = r.verts
              /\ faces' = r.faces
              /\ pc' = "done"
              /\ error' = "none"
         ELSE /\ pc' = "raised"
              /\ error' = "KeyError"
              /\ UNCHANGED <<verts, faces>>
    /\ UNCHANGED <<tableVars, remove_duplicates, counted_faces, outer_faces,
                   moduleVars, fileVars, writeVars, canonVars>>

NextFaces == GetFaces \/ Renumber

SpecFaces == InitFaces /\ [][NextFaces]_vars

(***************************************************************************)
(* Properties of get_faces and renumber (SpecFaces)                        *)
(***************************************************************************)
\* get_faces has returned.
FacesDone == pc \in {"renumber", "done"} \/ (pc = "raised" /\ error = "KeyError")

GroupOf(e) == <<e[1], e[2]>>

Rotations(q) ==
    { [i \in 1..Len(q) |-> q[((i - 1 + k) % Len(q)) + 1]] : k \in 0..(Len(q) - 1) }

\* Every tuple that names the polygon q, in the one winding or the other.
Windings(q) == Rotations(q) \cup Rotations(Reverse(q))

NodeIdsOf(fs) == UNION { Range(f) : f \in fs }

IsHex8(e) ==
    /\ Len(e) = 11
    /\ e[3] \in DOMAIN global_et
    /\ global_et[e[3]] \in {45, 185}
    /\ Cardinality({e[i] : i \in 4..11}) = 8

\* b sits on a: b's node slots 1-4 are a's node slots 5-8.
Abut(a, b) ==
    /\ IsHex8(a)
    /\ IsHex8(b)
    /\ GroupOf(a) = GroupOf(b)
    /\ SubSeq(b, 4, 7) = SubSeq(a, 8, 11)

\* C1: when two 8-node hexahedra (family 45 or 185, 8 distinct node ids each)
\* of one (material, real constant) group abut, the second one's node slots
\* 1-4 being the first one's slots 5-8, the quad they share is not among the
\* group's outer faces, in either winding, whatever remove_duplicates is.
C1_SharedQuadNotOuter ==
    FacesDone =>
        \A i, j \in DOMAIN global_e :
            (i # j /\ Abut(global_e[i], global_e[j])) =>
                \A w \in Windings(SubSeq(global_e[i], 8, 11)) :
                    w \notin outer_faces[GroupOf(global_e[i])]

C1_Witness ==
    /\ FacesDone
    /\ ~remove_duplicates
    /\ \E i, j \in DOMAIN global_e : i # j /\ Abut(global_e[i], global_e[j])
    /\ \E g \in DOMAIN outer_faces : outer_faces[g] # {}

\* Element i of group g yields the face f.
Produces(i, g, f) ==
    /\ Len(global_e[i]) >= 3
    /\ GroupOf(global_e[i]) = g
    /\ \E v13 \in {Unassigned} \cup {Assigned(v) : v \in NodeIds} :
         LET r == element_faces(global_e[i], global_et, v13)
         IN  r.kind = "faces" /\ f \in Range(r.faces)

\* Two elements of group g yield f in the same winding, f is counted twice,
\* and no element of g yields f in the reversed winding.
DuplicateFace(g, f) ==
    /\ counted_faces[g][f] = 2
    /\ \E i, j \in DOMAIN global_e : i # j /\ Produces(i, g, f) /\ Produces(j, g, f)
    /\ \A w \in Rotations(Reverse(f)) : w \notin DOMAIN counted_faces[g]

\* C2: a face two elements of a group yield in the same winding (count 2),
\* the reversed winding being yielded by none, is left out of the group's
\* outer faces when remove_duplicates is True and kept when it is False.
C2_DuplicateFace ==
    FacesDone =>
        \A g \in DOMAIN counted_faces :
            \A f \in DOMAIN counted_faces[g] :
                DuplicateFace(g, f) => (f \in outer_faces[g] <=> ~remove_duplicates)

C2_Witness ==
    /\ FacesDone
    /\ remove_duplicates
    /\ \E g \in DOMAIN counted_faces :
         \E f \in DOMAIN counted_faces[g] :
            DuplicateFace(g, f) /\ f \notin outer_faces[g]

\* C4: every node id of every outer face handed to renumber is a key of the
\* node table, and renumber never looks up a node id that is not.
C4_NoDanglingReference ==
    (pc \in {"done", "raised"} /\ error \notin {"NameError", "UnboundLocalError"}) =>
        /\ \A g \in DOMAIN outer_faces : NodeIdsOf(outer_faces[g]) \subseteq DOMAIN global_n
        /\ error # "KeyError"

\* C5: for a group whose outer faces name k distinct node ids, renumber
\* returns k vertices and faces whose indices lie in 0..k-1.
C5_IndexDense ==
    pc = "done" =>
        \A g \in DOMAIN outer_faces :
            LET k == Cardinality(NodeIdsOf(outer_faces[g])) IN
            /\ Len(verts[g]) = k
            /\ \A i \in DOMAIN faces[g] :
                 \A j \in DOMAIN faces[g][i] : faces[g][i][j] \in 0..(k - 1)

\* An 8-node element given as a tetrahedron: v3 = v4, v5 = v6 = v7 = v8.
IsCollapsedTet(e) ==
    /\ Len(e) = 11
    /\ e[3] \in DOMAIN global_et
    /\ global_et[e[3]] = 45
    /\ e[6] = e[7]
    /\ e[8] = e[9] /\ e[8] = e[10] /\ e[8] = e[11]
    /\ Cardinality({e[i] : i \in 4..11}) = 4

\* C7: a single element of family 45 collapsed to a tetrahedron yields
\* exactly 4 outer faces, each a triangle of 3 distinct node ids, and
\* renumber returns 4 vertices for its group.
C7_CollapsedTetrahedron ==
    (DOMAIN global_e = {1} /\ IsCollapsedTet(global_e[1])) =>
        LET g == GroupOf(global_e[1]) IN
        /\ FacesDone =>
             /\ Cardinality(outer_faces[g]) = 4
             /\ \A f \in outer_faces[g] : Len(f) = 3 /\ Cardinality(Range(f)) = 3
        /\ pc = "done" => Len(verts[g]) = 4

(***************************************************************************)
(* order_face on tuples drawn from bounded sets (SpecCanon)                *)
(***************************************************************************)
MaxFaceLen == 4
MaxFaceId == 3

FaceTuples == UNION { [1..k -> 1..MaxFaceId] : k \in 1..MaxFaceLen }

NoTables ==
    /\ global_n = EmptyMap
    /\ global_e = EmptyMap
    /\ global_et = EmptyMap
    /\ remove_duplicates = TRUE

InitCanon ==
    /\ f_arg \in FaceTuples
    /\ r_arg \in Rotations(f_arg)
    /\ f_res = <<>>
    /\ r_res = <<>>
    /\ pc = "order_face"
    /\ error = "none"
    /\ NoTables
    /\ NoFaces
    /\ NoFile
    /\ NoWrite

OrderFace ==
    /\ pc = "order_face"
    /\ f_res' = order_face(f_arg)
    /\ r_res' = order_face(r_arg)
    /\ pc' = "ordered"
    /\ UNCHANGED <<tableVars, faceVars, error, moduleVars, fileVars,
                   writeVars, f_arg, r_arg>>

NextCanon == OrderFace

SpecCanon == InitCanon /\ [][NextCanon]_vars

\* C3: order_face is a canonical form: for every non-empty tuple f of node
\* ids, node ids that occur more than once included, and every cyclic
\* rotation r of f, order_face(r) = order_face(f).
C3_CanonicalForm == pc = "ordered" => r_res = f_res

(***************************************************************************)
(* export_cdb.write: formatting and the five writers                       *)
(*                                                                         *)
(* A writer is modelled by the lines it writes to fhandle.                 *)
(***************************************************************************)
RECURSIVE DigitsOf(_)
DigitsOf(v) ==
    IF v < 10 THEN <<Digits[v + 1]>>
    ELSE Append(DigitsOf(v \div 10), Digits[(v % 10) + 1])

\* str(v) and "%i" % v for an integer v
str(v) == IF v < 0 THEN <<"-">> \o DigitsOf(0 - v) ELSE DigitsOf(v)

Spaces(k) == [i \in 1..k |-> " "]
Zeros(k) == [i \in 1..k |-> "0"]

\* a conversion with a minimum field width pads on the left and never cuts
rjust(s, width) == IF Len(s) >= width THEN s ELSE Spaces(width - Len(s)) \o s

\* "%i" % v: the number without a field width
fmt_8i_unpadded(v) == str(v)

\* "%8i" % v
fmt_8i(v) == rjust(str(v), 8)

\* "%16.9g" % x for x = <<m, e>>: with X the decimal exponent of x, fixed
\* notation when -4 <= X < 9 and exponent notation otherwise, without the
\* zeros that end the fraction.  (m is taken to have at most 9 digits, so
\* that no rounding happens; every coordinate of the model has.)
fmt_16_9g(x) ==
    LET m == x[1]
        e == x[2]
        d == DigitsOf(IF m < 0 THEN 0 - m ELSE m)
        k == Len(d)
        X == k + e - 1
        fixed == IF e >= 0 THEN d \o Zeros(e)
                 ELSE IF k + e > 0
                      THEN SubSeq(d, 1, k + e) \o <<".">> \o SubSeq(d, k + e + 1, k)
                      ELSE <<"0", ".">> \o Zeros(0 - (k + e)) \o d
        absX == IF X < 0 THEN 0 - X ELSE X
        expo == <<d[1]>> \o (IF k > 1 THEN <<".">> \o Tail(d) ELSE <<>>)
                \o <<"e", IF X < 0 THEN "-" ELSE "+">>
                \o (IF absX < 10 THEN <<"0">> ELSE <<>>) \o DigitsOf(absX)
        text == IF m = 0 THEN <<"0">>
                ELSE IF -4 <= X /\ X < 9 THEN fixed ELSE expo
    IN  rjust(IF m < 0 THEN <<"-">> \o text ELSE text, 16)

RECURSIVE Sorted(_)
Sorted(S) ==
    IF S = {} THEN <<>>
    ELSE LET x == CHOOSE y \in S : \A z \in S : y <= z
         IN  <<x>> \o Sorted(S \ {x})

four_noded_shell == <<1, 63>>
eight_noded_shell == <<2, 93>>

writeHeader ==
    << <<"/", "P", "R", "E", "P", "7", "\n">>,
       <<"/", "T", "I", "T", "L", "E", ",", "\n">> >>

writeET ==
    << <<"E", "T", ",">> \o str(four_noded_shell[1]) \o <<",">>
           \o str(four_noded_shell[2]) \o <<"\n">>,
       <<"E", "T", ",">> \o str(eight_noded_shell[1]) \o <<",">>
           \o str(eight_noded_shell[2]) \o <<"\n">> >>

\* "%8i%8i%8i%16.9g%16.9g%16.9g\n" % (node, 0, 0, n[node][0], n[node][1], n[node][2])
node_line(n, node) ==
    fmt_8i(node) \o fmt_8i(0) \o fmt_8i(0) \o fmt_16_9g(n[node][1])
        \o fmt_16_9g(n[node][2]) \o fmt_16_9g(n[node][3]) \o <<"\n">>

\* n is filled by processSelectedObjs in increasing node number, the order
\* in which the dict is then walked.
writeNBLOCK(n) ==
    LET nodes == Sorted(DOMAIN n) IN
    << <<"N", "B", "L", "O", "C", "K", ",", "6", ",", "S", "O", "L", "I", "D", "\n">>,
       <<"(", "3", "i", "8", ",", "6", "g", "1", "6", ".", "9", ")", "\n">> >>
    \o [i \in 1..Len(nodes) |-> node_line(n, nodes[i])]
    \o << <<"N", ",", "R", "5", ".", "3", ",", "L", "O", "C", ",", "-", "1", ",", "\n">> >>

RECURSIVE fmt_8i_all(_)
fmt_8i_all(values) ==
    IF Len(values) = 0 THEN <<>> ELSE fmt_8i(values[1]) \o fmt_8i_all(Tail(values))

\* Lines 110-123: the element type and the node list of a face, ok FALSE for
\* a face that is skipped.
face_element(face) ==
    IF Len(face) = 4
    THEN [ok |-> TRUE, element_type |-> four_noded_shell[1], nodes |-> face]
    ELSE IF Len(face) = 8
    THEN [ok |-> TRUE, element_type |-> eight_noded_shell[1], nodes |-> face]
    ELSE IF Len(face) = 3
    THEN [ok |-> TRUE, element_type |-> four_noded_shell[1],
          nodes |-> <<face[1], face[2], face[3], face[3]>>]
    ELSE IF Len(face) = 6
    THEN [ok |-> TRUE, element_type |-> eight_noded_shell[1],
          nodes |-> <<face[1], face[3], face[5], face[5], face[2], face[4],
                      face[5], face[6]>>]
    ELSE [ok |-> FALSE, element_type |-> 0, nodes |-> <<>>]

\* Lines 124-129: the record of one element
element_record(element_mat, element_type, element_real, element_number, nodes) ==
    fmt_8i_all(<<element_mat, element_type, element_real, 1, 0, 0, 0, 0,
                 Len(nodes), 0, element_number,
                 nodes[1], nodes[2], nodes[3], nodes[4]>>)
    \o (IF Len(nodes) > 4
        THEN fmt_8i_all(<<nodes[5], nodes[6], nodes[7], nodes[8]>>) \o <<"\n">>
        ELSE <<"\n">>)

\* Lines 109-130: the records of one face list, and the element number after it
RECURSIVE write_face_list(_, _, _, _, _)
write_face_list(face_list, i, element_number, element_mat, element_real) ==
    IF i > Len(face_list) THEN [lines |-> <<>>, element_number |-> element_number]
    ELSE LET el == face_element(face_list[i]) IN
         IF ~el.ok
         THEN write_face_list(face_list, i + 1, element_number, element_mat,
                              element_real)
         ELSE LET r == write_face_list(face_list, i + 1, element_number + 1,
                                       element_mat, element_real)
              IN  [r EXCEPT !.lines =
                      <<element_record(element_mat, el.element_type, element_real,
                                       element_number, el.nodes)>> \o @]

\* Lines 108-135: the records of all face lists
RECURSIVE write_face_lists(_, _, _, _, _, _, _)
write_face_lists(faces_arg, i, element_number, element_mat, inc_mat, element_real, inc_real) ==
    IF i > Len(faces_arg) THEN <<>>
    ELSE LET r == write_face_list(faces_arg[i], 1, element_number, element_mat,
                                  element_real)
         IN  r.lines \o write_face_lists(faces_arg, i + 1, r.element_number,
                 IF inc_mat THEN element_mat + 1 ELSE element_mat, inc_mat,
                 IF inc_real THEN element_real + 1 ELSE element_real, inc_real)

RECURSIVE Sum(_)
Sum(s) == IF Len(s) = 0 THEN 0 ELSE s[1] + Sum(Tail(s))

writeEBLOCK(faces_arg, init_mat, inc_mat, init_real, inc_real) ==
    LET face_count == Sum([i \in 1..Len(faces_arg) |-> Len(faces_arg[i])]) IN
    << <<"E", "B", "L", "O", "C", "K", ",", "1", "9", ",", "S", "O", "L", "I", "D", ",">> \o str(face_count) \o <<"\n">>,
       <<"(", "1", "9", "i", "8", ")", "\n">> >>
    \o write_face_lists(faces_arg, 1, 1, init_mat, inc_mat, init_real, inc_real)
    \o << <<"-", "1", ",", "\n">> >>

writeFINISH == << <<"F", "I", "N", "I", "S", "H", "\n">> >>

(***************************************************************************)
(* Input of read3DMesh: files made of the chunks below, a chunk being a    *)
(* command line with the lines of its block                                *)
(***************************************************************************)
\* the example of the N command
N_Example ==
    <<"N", ",", "R", "5", ".", "3", ",", "L", "O", "C", ",", "5", ",", ",",
      ",", " ", "1", ".", "0", ",", "2", ".", "0", ",", "3", ".", "0",
      "\n">>

\* lower case, blanks, an unparsable x and no z
N_Defaults ==
    <<"n", ",", "r", "5", ".", "3", ",", "l", "o", "c", ",", " ", "5", " ",
      ",", ",", ",", "x", ",", "2", ".", "5", "\n">>

\* the line that ends an NBLOCK
N_Minus ==
    <<"N", ",", "R", "5", ".", "3", ",", "L", "O", "C", ",", "-", "1", ",",
      "\n">>

\* node number 0
N_Zero ==
    <<"N", ",", "R", "5", ".", "3", ",", "L", "O", "C", ",", "0", ",", ",",
      ",", "1", ".", "0", ",", "2", ".", "0", ",", "3", ".", "0", "\n">>

\* a type other than LOC
N_Ang ==
    <<"N", ",", "R", "5", ".", "3", ",", "A", "N", "G", ",", "5", ",", "1",
      ".", "0", ",", "2", ".", "0", ",", "3", ".", "0", "\n">>

\* a node number that is not an integer
N_BadId ==
    <<"N", ",", "R", "5", ".", "3", ",", "L", "O", "C", ",", "5", ".", "0",
      ",", ",", ",", "1", ".", "0", ",", "2", ".", "0", ",", "3", ".", "0",
      "\n">>

\* fewer than 4 tokens
N_Short ==
    <<"N", ",", "R", "5", ".", "3", ",", "L", "O", "C", "\n">>

\* attributes of element 7
EN_Attr7 ==
    <<"E", "N", ",", "R", "5", ".", "5", ",", "A", "T", "T", "R", ",", "4",
      ",", "2", ",", "3", ",", "4", ",", "0", ",", "0", ",", "7", "\n">>

\* nodes of the current element
EN_Node ==
    <<"E", "N", ",", "R", "5", ".", "5", ",", "N", "O", "D", "E", ",", "4",
      ",", "1", ",", "2", ",", "3", ",", "4", "\n">>

\* element type 1 of family 45
ET_1_45 ==
    <<"E", "T", ",", "1", ",", "4", "5", "\n">>

\* an element type with an empty number
ET_Empty186 ==
    <<"E", "T", ",", ",", "1", "8", "6", "\n">>

\* a family that is not an integer
ET_Name ==
    <<"E", "T", ",", "3", ",", "S", "H", "E", "L", "L", "6", "3", "\n">>

TYPE_2 ==
    <<"T", "Y", "P", "E", ",", "2", "\n">>

MAT_3 ==
    <<"M", "A", "T", ",", "3", "\n">>

REAL_4 ==
    <<"R", "E", "A", "L", ",", "4", "\n">>

\* a command read3DMesh does not know
Other_Prep7 ==
    <<"/", "P", "R", "E", "P", "7", "\n">>

\* a blank line
Other_Blank ==
    <<"\n">>

NBLOCK_6_SOLID ==
    <<"N", "B", "L", "O", "C", "K", ",", "6", ",", "S", "O", "L", "I", "D",
      "\n">>

NBLOCK_Format ==
    <<"(", "3", "i", "8", ",", "6", "g", "1", "6", ".", "9", ")", "\n">>

EBLOCK_19_SOLID ==
    <<"E", "B", "L", "O", "C", "K", ",", "1", "9", ",", "S", "O", "L", "I",
      "D", ",", "1", "\n">>

EBLOCK_19_Format ==
    <<"(", "1", "9", "i", "8", ")", "\n">>

EBLOCK_9 ==
    <<"E", "B", "L", "O", "C", "K", ",", "9", ",", ",", "1", "\n">>

EBLOCK_9_Format ==
    <<"(", "9", "i", "8", ")", "\n">>

E_End ==
    <<"-", "1", "\n">>

BlockNodes == (1 :> <<<<5, -1>>, <<2, 0>>, <<1, 0>>>>) @@ (2 :> <<<<1, 0>>, <<0, 0>>, <<-25, -2>>>>)

\* a node block of two nodes
NB_Two ==
    <<NBLOCK_6_SOLID, NBLOCK_Format, node_line(BlockNodes, 1),
      node_line(BlockNodes, 2), N_Minus>>

\* a node block with a blank line in it
NB_Blank ==
    <<NBLOCK_6_SOLID, NBLOCK_Format, node_line(BlockNodes, 1), Other_Blank,
      N_Minus>>

\* an element block in the SOLID layout: element 4 with 8 nodes
EB_Hex ==
    <<EBLOCK_19_SOLID, EBLOCK_19_Format,
      element_record(2, 1, 3, 4, <<1, 2, 3, 4, 5, 6, 7, 8>>), E_End>>

\* an element block in the layout without SOLID: element 4 with 4 nodes
EB_Plain ==
    <<EBLOCK_9, EBLOCK_9_Format,
      fmt_8i_all(<<4, 1, 3, 2, 0, 1, 2, 3, 4>>) \o <<"\n">>, E_End>>

Palette ==
    { <<N_Example>>, <<N_Defaults>>, <<N_Minus>>, <<N_Zero>>, <<N_Ang>>,
      <<N_BadId>>, <<N_Short>>, <<EN_Attr7>>, <<EN_Node>>, <<ET_1_45>>,
      <<ET_Empty186>>, <<ET_Name>>, <<TYPE_2>>, <<MAT_3>>, <<REAL_4>>,
      <<Other_Prep7>>, <<Other_Blank>>, NB_Two, NB_Blank, EB_Hex, EB_Plain }

MaxChunks == 2

RECURSIVE Concat(_)
Concat(chunks) ==
    IF Len(chunks) = 0 THEN <<>> ELSE chunks[1] \o Concat(Tail(chunks))

\* the files of at most MaxChunks chunks
Files == UNION { { Concat(c) : c \in [1..k -> Palette] } : k \in 0..MaxChunks }

(***************************************************************************)
(* read3DMesh as a state machine: Open, one step of its loop for each      *)
(* command, Close                                                          *)
(***************************************************************************)
InitParse ==
    /\ file \in Files
    /\ pc = "read3DMesh"
    /\ error = "none"
    /\ remove_duplicates = TRUE
    /\ NoTables
    /\ NoFaces
    /\ current_element = Unassigned
    /\ current_type = Unassigned
    /\ current_mat = Unassigned
    /\ current_real = Unassigned
    /\ filehandle = "none"
    /\ pos = 0
    /\ line = <<>>
    /\ NoWrite
    /\ NoCanon

\* Lines 31-38 and 444-445: the tables start empty, the file is opened and
\* its first line read.
Open ==
    /\ pc = "read3DMesh"
    /\ global_n' = EmptyMap
    /\ global_e' = EmptyMap
    /\ global_et' = EmptyMap
    /\ filehandle' = "open"
    /\ line' = IF Len(file) > 0 THEN file[1] ELSE <<>>
    /\ pos' = IF Len(file) > 0 THEN 1 ELSE 0
    /\ pc' = "parse"
    /\ UNCHANGED <<file, error, faceVars, moduleVars, writeVars, canonVars>>

Current ==
    [global_n |-> global_n, global_e |-> global_e, global_et |-> global_et,
     current_element |-> current_element, current_type |-> current_type,
     current_mat |-> current_mat, current_real |-> current_real,
     error |-> "none", read |-> 0]

\* Lines 446-448: parseCommand(line, filehandle), then the next readline().
\* An exception leaves read3DMesh at once, with the file still open.
Handled(r, consumed) ==
    /\ global_n' = r.global_n
    /\ global_e' = r.global_e
    /\ global_et' = r.global_et
    /\ current_element' = r.current_element
    /\ current_type' = r.current_type
    /\ current_mat' = r.current_mat
    /\ current_real' = r.current_real
    /\ error' = r.error
    /\ IF r.error = "none"
       THEN /\ pc' = "parse"
            /\ line' = IF consumed < Len(file) THEN file[consumed + 1] ELSE <<>>
            /\ pos' = IF consumed < Len(file) THEN consumed + 1 ELSE consumed
       ELSE /\ pc' = IF r.error = "NoReturn" THEN "diverged" ELSE "raised"
            /\ line' = line
            /\ pos' = consumed
    /\ UNCHANGED <<filehandle, file, faceVars, writeVars, canonVars>>

\* a variant in which the loop's readline() is followed by another one
Consumed_and_one_more(r) ==
    IF pos + r.read + 1 > Len(file) THEN Len(file) ELSE pos + r.read + 1

Consumed(r) == IF pos + r.read > Len(file) THEN Len(file) ELSE pos + r.read

Handle ==
    \E r \in {parseCommand(Current, line, SubSeq(file, pos + 1, Len(file)))} :
        Handled(r, Consumed(r))

AtCommand(command) == pc = "parse" /\ line # <<>> /\ Command(line) = command

ParseN == AtCommand(<<"n">>) /\ Handle

ParseEN == AtCommand(<<"e", "n">>) /\ Handle

ParseNBLOCK == AtCommand(<<"n", "b", "l", "o", "c", "k">>) /\ Handle

ParseEBLOCK == AtCommand(<<"e", "b", "l", "o", "c", "k">>) /\ Handle

ParseET == AtCommand(<<"e", "t">>) /\ Handle

ParseTYPE == AtCommand(<<"t", "y", "p", "e">>) /\ Handle

ParseMAT == AtCommand(<<"m", "a", "t">>) /\ Handle

ParseREAL == AtCommand(<<"r", "e", "a", "l">>) /\ Handle

\* any other first token: parseCommand calls no handler
ParseOther ==
    /\ pc = "parse"
    /\ line # <<>>
    /\ Command(line) \notin Commands
    /\ Handle

\* Lines 449-451: the loop ends at the end of the file; the file is closed
\* and the tables returned to readMesh, which calls get_faces next.
Close ==
    /\ pc = "parse"
    /\ line = <<>>
    /\ filehandle' = "closed"
    /\ pc' = "get_faces"
    /\ UNCHANGED <<tableVars, faceVars, error, moduleVars, file, pos, line,
                   writeVars, canonVars>>

NextParse ==
    \/ Open
    \/ ParseN
    \/ ParseEN
    \/ ParseNBLOCK
    \/ ParseEBLOCK
    \/ ParseET
    \/ ParseTYPE
    \/ ParseMAT
    \/ ParseREAL
    \/ ParseOther
    \/ Close

SpecParse == InitParse /\ [][NextParse]_vars

(***************************************************************************)
(* Properties of read3DMesh                                                *)
(***************************************************************************)
Max(S) == CHOOSE x \in S : \A y \in S : y <= x

LOC == <<"l", "o", "c">>

\* An ET line with an empty number and an integer family
EmptyIdET(tokens) == Len(tokens) >= 3 /\ tokens[2] = <<>> /\ int(tokens[3]).ok

NextTypeId == IF DOMAIN global_et = {} THEN 1 ELSE Max(DOMAIN global_et) + 1

\* C8: a step of the loop at an ET command with an empty number and an
\* integer family adds (largest type number + 1, or 1 for an empty table)
\* -> family to the element-type table and makes that number the current
\* type.
C8_EmptyIdTakesNextNumber ==
    [][ (AtCommand(<<"e", "t">>) /\ EmptyIdET(Tokens(line)))
        => /\ global_et' = Put(global_et, NextTypeId, int(Tokens(line)[3]).val)
           /\ current_type' = Assigned(NextTypeId) ]_vars

\* An N line that names a node: type LOC and a positive integer number
NamesNode(tokens) ==
    /\ Len(tokens) >= 4
    /\ tokens[3] = LOC
    /\ int(tokens[4]).ok
    /\ int(tokens[4]).val > 0

\* C9: a step of the loop at an N command sets node token[3] to the
\* coordinates in tokens 6, 7 and 8 (0 for one that is missing or does not
\* parse), replacing an earlier entry, when token[2] is "loc" and token[3]
\* is a positive integer; in every other case it leaves the node table as
\* it is.
C9_NodeCommand ==
    [][ AtCommand(<<"n">>)
        => IF NamesNode(Tokens(line))
           THEN global_n' = Put(global_n, int(Tokens(line)[4]).val,
                                <<FloatAt(Tokens(line), 6), FloatAt(Tokens(line), 7),
                                  FloatAt(Tokens(line), 8)>>)
           ELSE global_n' = global_n ]_vars

\* The example line has set node 5, and the second N line for node 5 has
\* replaced it with its own coordinates, 0 where it gives none.
C9_Witness ==
    /\ file = <<N_Example, N_Defaults>>
    /\ pc = "parse"
    /\ line = <<>>
    /\ global_n = (5 :> <<Float(0), <<25, -1>>, Float(0)>>)

\* C10: no exception leaves read3DMesh, whatever the lines of the file.
C10_NoExceptionEscapes == pc # "raised"

(***************************************************************************)
(* Round trip: write puts a cube into a file, readMesh reads the file      *)
(***************************************************************************)
MaxMat == 2

\* The corners of a cube are numbered 0..7, corner c at
\* (c % 2, (c \div 2) % 2, c \div 4); each face is wound counter-clockwise
\* seen from outside.
CubeFaces ==
    << <<0, 2, 3, 1>>, <<4, 5, 7, 6>>, <<0, 1, 5, 4>>,
       <<2, 6, 7, 3>>, <<0, 4, 6, 2>>, <<1, 3, 7, 5>> >>

\* node number of each corner
CubeNumberings ==
    { [c \in 0..7 |-> c + 1], [c \in 0..7 |-> 8 - c],
      [c \in 0..7 |-> ((3 * c + 2) % 8) + 1] }

\* the lower and the upper coordinate of the cube
CubeExtents == { <<Float(0), Float(1)>>, <<<<-5, -1>>, <<5, -1>>>> }

CubeNodes(num, ext) ==
    [node \in 1..8 |->
        LET c == CHOOSE d \in 0..7 : num[d] = node
        IN  <<ext[(c % 2) + 1], ext[((c \div 2) % 2) + 1], ext[(c \div 4) + 1]>>]

\* the faces of the cube, all starting k corners later and, with inward,
\* all wound the other way
CubePolygons(num, k, inward) ==
    [i \in 1..6 |->
        LET q == [j \in 1..4 |-> num[CubeFaces[i][((j + k - 1) % 4) + 1]]]
        IN  IF inward THEN Reverse(q) ELSE q]

InitRoundTrip ==
    /\ \E num \in CubeNumberings, ext \in CubeExtents, k \in 0..1,
          inward \in BOOLEAN :
            /\ write_n = CubeNodes(num, ext)
            /\ write_f = << CubePolygons(num, k, inward) >>
    /\ initial_mat \in 1..MaxMat
    /\ initial_real \in 1..MaxMat
    /\ increment_mat \in BOOLEAN
    /\ increment_real \in BOOLEAN
    /\ remove_duplicates \in BOOLEAN
    /\ pc = "write"
    /\ error = "none"
    /\ NoTables
    /\ NoFaces
    /\ NoFile
    /\ NoCanon

\* write, lines 150-151: the file is opened and the header written
WriteHeader ==
    /\ pc = "write"
    /\ filehandle' = "open"
    /\ file' = writeHeader
    /\ pc' = "writeET"
    /\ UNCHANGED <<tableVars, faceVars, error, moduleVars, pos, line, writeVars,
                   canonVars>>

\* write, line 152
WriteET ==
    /\ pc = "writeET"
    /\ file' = file \o writeET
    /\ pc' = "writeNBLOCK"
    /\ UNCHANGED <<tableVars, faceVars, error, moduleVars, filehandle, pos, line,
                   writeVars, canonVars>>

\* write, line 153
WriteNBLOCK ==
    /\ pc = "writeNBLOCK"
    /\ file' = file \o writeNBLOCK(write_n)
    /\ pc' = "writeEBLOCK"
    /\ UNCHANGED <<tableVars, faceVars, error, moduleVars, filehandle, pos, line,
                   writeVars, canonVars>>

\* write, line 154
WriteEBLOCK ==
    /\ pc = "writeEBLOCK"
    /\ file' = file \o writeEBLOCK(write_f, initial_mat, increment_mat,
                                   initial_real, increment_real)
    /\ pc' = "writeFINISH"
    /\ UNCHANGED <<tableVars, faceVars, error, moduleVars, filehandle, pos, line,
                   writeVars, canonVars>>

\* write, lines 155-156: FINISH is written and the file closed.  The file is
\* then given to readMesh, which calls read3DMesh first.
WriteFINISH ==
    /\ pc = "writeFINISH"
    /\ file' = file \o writeFINISH
    /\ filehandle' = "closed"
    /\ pc' = "read3DMesh"
    /\ UNCHANGED <<tableVars, faceVars, error, moduleVars, pos, line, writeVars,
                   canonVars>>

NextRoundTrip ==
    \/ WriteHeader
    \/ WriteET
    \/ WriteNBLOCK
    \/ WriteEBLOCK
    \/ WriteFINISH
    \/ Open
    \/ ParseOther
    \/ ParseET
    \/ ParseNBLOCK
    \/ ParseEBLOCK
    \/ Close
    \/ GetFaces
    \/ Renumber

SpecRoundTrip == InitRoundTrip /\ [][NextRoundTrip]_vars

\* C6: the cube written by write and read back by read3DMesh, get_faces
\* with remove_duplicates True and renumber comes out as exactly one group
\* of 6 faces of 4 nodes each and 8 vertices; nothing on the way raises or
\* fails to return.
C6_CubeRoundTrip ==
    /\ pc \notin {"raised", "diverged"}
    /\ (pc = "done" /\ remove_duplicates)
       => /\ Cardinality(DOMAIN faces) = 1
          /\ DOMAIN verts = DOMAIN faces
          /\ \A g \in DOMAIN faces :
                /\ Len(faces[g]) = 6
                /\ \A i \in 1..6 : Len(faces[g][i]) = 4
                /\ Len(verts[g]) = 8

\* The cube has been written, read back and renumbered into its group.
C6_Witness ==
    /\ pc = "done"
    /\ remove_duplicates
    /\ filehandle = "closed"
    /\ Len(file) = 25
    /\ DOMAIN global_n = 1..8
    /\ DOMAIN faces = {<<initial_mat, initial_real>>}

(***************************************************************************)
(* read3DMesh on files of blocks                                           *)
(***************************************************************************)
\* a node block that the file ends in
NB_NoEnd == <<NBLOCK_6_SOLID, NBLOCK_Format, node_line(BlockNodes, 2)>>

\* an element block in the SOLID layout that the file ends in
EB_NoEnd ==
    <<EBLOCK_19_SOLID, EBLOCK_19_Format,
      element_record(2, 1, 3, 4, <<1, 2, 3, 4, 5, 6, 7, 8>>)>>

\* an element block in the layout without SOLID that the file ends in
EB_PlainNoEnd ==
    <<EBLOCK_9, EBLOCK_9_Format,
      fmt_8i_all(<<4, 1, 3, 2, 0, 1, 2, 3, 4>>) \o <<"\n">>>>

\* an element block in the SOLID layout: element 9 with 4 nodes, 15 fields
\* on its line
EB_Quad ==
    <<EBLOCK_19_SOLID, EBLOCK_19_Format,
      element_record(1, 2, 5, 9, <<11, 12, 13, 14>>), E_End>>

\* an element block in the SOLID layout: element 4 with 10 nodes, 8 of them
\* on the first line and 2 on the next
EB_Tet10 ==
    <<EBLOCK_19_SOLID, EBLOCK_19_Format,
      fmt_8i_all(<<2, 1, 3, 1, 0, 0, 0, 0, 10, 0, 4, 1, 2, 3, 4, 5, 6, 7, 8>>)
          \o <<"\n">>,
      fmt_8i_all(<<9, 10>>) \o <<"\n">>, E_End>>

BlockPalette ==
    { NB_Two, NB_NoEnd, EB_Hex, EB_NoEnd, EB_Plain, EB_PlainNoEnd, EB_Quad,
      EB_Tet10, <<N_Example>>, <<Other_Prep7>> }

\* the files of at most MaxChunks chunks of BlockPalette
BlockFiles ==
    UNION { { Concat(c) : c \in [1..k -> BlockPalette] } : k \in 0..MaxChunks }

\* read3DMesh is given a file; nothing is read yet; the module is fresh
Fresh ==
    /\ pc = "read3DMesh"
    /\ error = "none"
    /\ remove_duplicates = TRUE
    /\ NoTables
    /\ NoFaces
    /\ current_element = Unassigned
    /\ current_type = Unassigned
    /\ current_mat = Unassigned
    /\ current_real = Unassigned
    /\ filehandle = "none"
    /\ pos = 0
    /\ line = <<>>
    /\ NoWrite
    /\ NoCanon

InitBlocks == file \in BlockFiles /\ Fresh

NextBlocks ==
    \/ Open
    \/ ParseN
    \/ ParseNBLOCK
    \/ ParseEBLOCK
    \/ ParseOther
    \/ Close

SpecBlocks == InitBlocks /\ [][NextBlocks]_vars

\* C11: for a file that is one block without its last line, read3DMesh
\* returns (it neither raises nor runs for ever), and the tables it returns
\* hold the records of the block.
C11_EndOfInputInBlock ==
    /\ (file \in {NB_NoEnd, EB_NoEnd, EB_PlainNoEnd}
        => pc \notin {"raised", "diverged"})
    /\ (file = NB_NoEnd /\ pc = "get_faces"
        => global_n = (2 :> BlockNodes[2]))
    /\ (file = EB_PlainNoEnd /\ pc = "get_faces"
        => global_e = (4 :> <<2, 3, 1, 1, 2, 3, 4>>))
    /\ (file = EB_NoEnd /\ pc = "get_faces"
        => global_e = (4 :> <<2, 3, 1, 1, 2, 3, 4, 5, 6, 7, 8>>))

\* C12: read3DMesh is never left with its file still open: when it has
\* returned, and when an exception has left it, the file is closed.
C12_FileClosedOnExit ==
    pc \in {"get_faces", "raised"} => filehandle = "closed"

(***************************************************************************)
(* Several files read one after the other by the same process: the import  *)
(* operator calls read for each selected path.  The names the handlers     *)
(* declare global belong to the module and outlive each call.              *)
(***************************************************************************)
\* attributes of element 7 with empty material, type and real constant
EN_AttrDefaults ==
    <<"E", "N", ",", "R", "5", ".", "5", ",", "A", "T", "T", "R", ",", "4",
      ",", ",", ",", ",", "0", ",", "0", ",", "7", "\n">>

SessionPalette ==
    { <<EN_Attr7>>, <<EN_AttrDefaults>>, <<EN_Node>>, <<MAT_3>> }

\* the files of at most MaxChunks chunks of SessionPalette
SessionFiles ==
    UNION { { Concat(c) : c \in [1..k -> SessionPalette] } : k \in 0..MaxChunks }

InitSession == file \in SessionFiles /\ Fresh

\* read3DMesh has returned or raised; the operator is given another path
Call ==
    /\ pc \in {"get_faces", "raised"}
    /\ file' \in SessionFiles
    /\ pc' = "read3DMesh"
    /\ error' = "none"
    /\ global_n' = EmptyMap
    /\ global_e' = EmptyMap
    /\ global_et' = EmptyMap
    /\ filehandle' = "none"
    /\ pos' = 0
    /\ line' = <<>>
    /\ UNCHANGED <<faceVars, moduleVars, writeVars, canonVars>>

NextSession ==
    \/ Open
    \/ ParseEN
    \/ ParseMAT
    \/ Close
    \/ Call

SpecSession == InitSession /\ [][NextSession]_vars

\* Lines 31-38 and 444-451 as one function of the lines of the file, for a
\* module in which no handler has run yet.
RECURSIVE read_lines(_, _)
read_lines_after(r, lines) ==
    IF r.error # "none" THEN r
    ELSE read_lines([r EXCEPT !.read = 0],
                    SubSeq(lines, 2 + r.read, Len(lines)))

read_lines(st, lines) ==
    IF lines = <<>> THEN st
    ELSE read_lines_after(parseCommand(st, Head(lines), Tail(lines)), lines)

read3DMesh(lines) ==
    read_lines([global_n |-> EmptyMap, global_e |-> EmptyMap,
                global_et |-> EmptyMap, current_element |-> Unassigned,
                current_type |-> Unassigned, current_mat |-> Unassigned,
                current_real |-> Unassigned, error |-> "none", read |-> 0],
               lines)

\* the value of a selector: what a handler assigned last, 1 before that
Selector(g) == IF IsAssigned(g) THEN g[1] ELSE 1

OrSelector(token, g) == IF token.ok THEN token.val ELSE Selector(g)

IsEN(l, subcommand) == Len(Tokens(l)) >= 4 /\ Tokens(l)[3] = subcommand

\* C13: an EN ATTR with an element number stores, for each of material, real
\* constant and type, its own token, or the selector's value where the token
\* is empty or unparsable; an EN NODE that creates a new element gives it
\* the three selectors' values.
C13_SelectorsAreDefaults ==
    [][ /\ (/\ AtCommand(<<"e", "n">>)
            /\ IsEN(line, <<"a", "t", "t", "r">>)
            /\ IntAt(Tokens(line), 9).ok
            => \E id \in {IntAt(Tokens(line), 9).val} :
                 /\ id \in DOMAIN global_e'
                 /\ SubSeq(global_e'[id], 1, 3) =
                      << OrSelector(IntAt(Tokens(line), 4), current_mat),
                         OrSelector(IntAt(Tokens(line), 6), current_real),
                         OrSelector(IntAt(Tokens(line), 5), current_type) >>)
        /\ (/\ AtCommand(<<"e", "n">>)
            /\ IsEN(line, <<"n", "o", "d", "e">>)
            /\ IsAssigned(current_element)
            /\ current_element[1] \notin DOMAIN global_e
            /\ current_element[1] \in DOMAIN global_e'
            => SubSeq(global_e'[current_element[1]], 1, 3) =
                 << Selector(current_mat), Selector(current_real),
                    Selector(current_type) >>)
      ]_vars

\* C14: what read3DMesh returns for a file is what it returns for that file
\* in a process that has read no file before.
C14_DependsOnFileOnly ==
    /\ (pc = "get_faces"
        => \E r \in {read3DMesh(file)} :
             /\ r.error = "none"
             /\ global_n = r.global_n
             /\ global_e = r.global_e
             /\ global_et = r.global_et)
    /\ (pc = "raised" => \E r \in {read3DMesh(file)} : r.error = error)

\* C15: a line whose command is none of n, en, nblock, eblock, et, type, mat,
\* real leaves the three tables and the four selectors as they were, takes no
\* line but itself from the file, and the parse goes on with the line after
\* it.
C15_UnknownCommandIgnored ==
    [][ pc = "parse" /\ line # <<>> /\ Command(line) \notin Commands
        => /\ UNCHANGED <<global_n, global_e, global_et>>
           /\ UNCHANGED <<current_element, current_type, current_mat,
                          current_real>>
           /\ error' = "none"
           /\ pc' = "parse"
           /\ line' = (IF pos < Len(file) THEN file[pos + 1] ELSE <<>>)
           /\ pos' = (IF pos < Len(file) THEN pos + 1 ELSE pos)
      ]_vars

\* a node block after an unknown command was read
C15_Witness ==
    /\ pc = "get_faces"
    /\ Len(file) > 2
    /\ Command(file[1]) \notin Commands
    /\ Command(file[2]) = <<"n", "b", "l", "o", "c", "k">>
    /\ DOMAIN global_n # {}

(***************************************************************************)
(* write on lists of polygons of any arity                                 *)
(***************************************************************************)
MaxPolys == 2

\* one polygon of each arity from 3 to 8 but 7
PolygonPool ==
    { <<1, 2, 3>>, <<1, 2, 3, 4>>, <<1, 2, 3, 4, 5>>, <<1, 2, 3, 4, 5, 6>>,
      <<1, 2, 3, 4, 5, 6, 7, 8>> }

\* the lists of at most k polygons
FaceLists(k) == UNION { [1..j -> PolygonPool] : j \in 0..k }

\* processSelectedObjs returns one list of polygons per selected object:
\* here one object, or two of which the second has at most one polygon
InitWrite ==
    /\ write_n = [node \in 1..2 |-> <<Float(0), Float(1), Float(node)>>]
    /\ \/ \E a \in FaceLists(MaxPolys) : write_f = <<a>>
       \/ \E a \in FaceLists(MaxPolys), b \in FaceLists(1) : write_f = <<a, b>>
    /\ initial_mat \in 1..MaxMat
    /\ initial_real = 1
    /\ increment_mat \in BOOLEAN
    /\ increment_real = FALSE
    /\ pc = "write"
    /\ error = "none"
    /\ NoTables
    /\ NoFaces
    /\ NoFile
    /\ NoCanon

NextWrite ==
    \/ WriteHeader
    \/ WriteET
    \/ WriteNBLOCK
    \/ WriteEBLOCK
    \/ WriteFINISH

SpecWrite == InitWrite /\ [][NextWrite]_vars

\* the lines of the file between the two lines of the EBLOCK header and the
\* line -1, once writeEBLOCK has written them
EblockWritten == pc \in {"writeFINISH", "read3DMesh"} /\ filehandle # "none"

EblockAt(f) ==
    CHOOSE i \in 1..Len(f) : Command(f[i]) = <<"e", "b", "l", "o", "c", "k">>

EblockEnd(f) == CHOOSE i \in 1..Len(f) : f[i] = <<"-", "1", ",", "\n">>

EblockRecords(f) == SubSeq(f, EblockAt(f) + 2, EblockEnd(f) - 1)

\* C16: every record of the EBLOCK the writer emits is a line of 19 fields
\* of 8 characters.
C16_NineteenFields ==
    EblockWritten
    => \A i \in 1..Len(EblockRecords(file)) :
         Len(EblockRecords(file)[i]) = 19 * 8 + 1

\* C17: a SOLID record of 10 nodes, 8 on its line and 2 on the next one, is
\* read to its end: read3DMesh returns, with element 4 and its 10 node ids.
C17_ContinuationLine ==
    file = EB_Tet10
    => /\ pc # "diverged"
       /\ pc = "get_faces"
          => global_e = (4 :> <<2, 3, 1, 1, 2, 3, 4, 5, 6, 7, 8, 9, 10>>)

\* C18: the element stored for the SOLID record of element 9, which has 4
\* nodes and 15 fields, has the material, real constant and type of the
\* record and its 4 node ids, nothing else.
C18_FieldsOfTheRecord ==
    file = EB_Quad /\ pc = "get_faces"
    => global_e = (9 :> <<1, 5, 2, 11, 12, 13, 14>>)

\* An element of a shell family with mid-side nodes and 8 node ids of which
\* the third and the fourth corner are the same.
IsShell6(e) ==
    /\ Len(e) = 11
    /\ e[3] \in DOMAIN global_et
    /\ global_et[e[3]] \in {93, 281}
    /\ e[6] = e[7]

\* its corners and mid-side nodes in turn: v1, v12, v2, v23, v3 and the
\* mid-side node between v3 and v1, which is the last node id
Shell6Face(e) == order_face(<<e[4], e[8], e[5], e[9], e[6], e[11]>>)

\* C19: with such an element in the table get_faces raises no
\* UnboundLocalError, and once get_faces is done the element's cycle of 6
\* node ids is among the faces counted for its group, where it is the only
\* face when the element is the only one.
C19_DegenerateMidsideShell ==
    /\ error # "UnboundLocalError"
    /\ FacesDone
       => \A i \in DOMAIN global_e :
            IsShell6(global_e[i])
            => /\ Shell6Face(global_e[i]) \in DOMAIN counted_faces[GroupOf(global_e[i])]
               /\ DOMAIN global_e = {i}
                  => DOMAIN counted_faces[GroupOf(global_e[i])] = {Shell6Face(global_e[i])}

(***************************************************************************)
(* read3DMesh on files of EN commands                                      *)
(***************************************************************************)
\* other attributes for element 7
EN_AttrNew ==
    <<"E", "N", ",", "R", "5", ".", "5", ",", "A", "T", "T", "R", ",", "4", ",", "5", ",", "6", ",", "8", ",", "0", ",", "0", ",", "7", "\n">>

\* attributes of element 9
EN_Attr9 ==
    <<"E", "N", ",", "R", "5", ".", "5", ",", "A", "T", "T", "R", ",", "4", ",", "2", ",", "3", ",", "4", ",", "0", ",", "0", ",", "9", "\n">>

\* attributes of the current element
EN_AttrCurrent ==
    <<"E", "N", ",", "R", "5", ".", "5", ",", "A", "T", "T", "R", ",", "4", ",", "5", ",", "6", ",", "8", "\n">>

\* two more nodes of the current element
EN_Node56 ==
    <<"E", "N", ",", "R", "5", ".", "5", ",", "N", "O", "D", "E", ",", "2", ",", "5", ",", "6", "\n">>

\* nodes of which the second is no integer
EN_NodeBad ==
    <<"E", "N", ",", "R", "5", ".", "5", ",", "N", "O", "D", "E", ",", "4", ",", "1", ",", "x", ",", "3", ",", "4", "\n">>

ElementPalette ==
    { <<EN_Attr7, EN_Node>>, <<EN_Attr9, EN_Attr7, EN_Node>>, <<EN_Attr7>>, <<EN_AttrNew>>, <<EN_AttrDefaults>>,
      <<EN_Attr9>>, <<EN_AttrCurrent>>, <<EN_Node>>, <<EN_Node56>>,
      <<EN_NodeBad>> }

\* the files of at most MaxChunks chunks of ElementPalette
ElementFiles ==
    UNION { { Concat(c) : c \in [1..k -> ElementPalette] } : k \in 0..MaxChunks }

InitElements == file \in ElementFiles /\ Fresh

NextElements ==
    \/ Open
    \/ ParseEN
    \/ Close

SpecElements == InitElements /\ [][NextElements]_vars

\* the element id has attributes and node ids in the element table
HasBoth(id) == id \in DOMAIN global_e /\ Len(global_e[id]) > 3

Attributes(e) == SubSeq(e, 1, 3)

NodeIdsIn(e) == SubSeq(e, 4, Len(e))

\* the element an EN ATTR line is for: the one it names, else the current one
AttrTarget(l) ==
    IF IntAt(Tokens(l), 9).ok THEN Assigned(IntAt(Tokens(l), 9).val)
    ELSE current_element

\* the only element of the table the step changes, if any, is id
OnlyChanges(id) ==
    /\ DOMAIN global_e' = DOMAIN global_e
    /\ \A other \in DOMAIN global_e \ {id} : global_e'[other] = global_e[other]

HasBadNodeToken(l) ==
    \E k \in 5..Len(Tokens(l)) : ~int(Tokens(l)[k]).ok

\* C20: for an element that has attributes and node ids, an EN ATTR leaves
\* its node ids and every other element as they were, an EN NODE leaves its
\* attributes and every other element as they were, and an EN NODE with a
\* node token that is no integer leaves the tables and the selectors as they
\* were.
C20_ElementFrame ==
    [][ /\ (/\ AtCommand(<<"e", "n">>)
            /\ IsEN(line, <<"a", "t", "t", "r">>)
            /\ IsAssigned(AttrTarget(line))
            /\ HasBoth(AttrTarget(line)[1])
            => /\ OnlyChanges(AttrTarget(line)[1])
               /\ NodeIdsIn(global_e'[AttrTarget(line)[1]]) =
                    NodeIdsIn(global_e[AttrTarget(line)[1]])
               /\ UNCHANGED <<global_n, global_et>>)
        /\ (/\ AtCommand(<<"e", "n">>)
            /\ IsEN(line, <<"n", "o", "d", "e">>)
            /\ IsAssigned(current_element)
            /\ HasBoth(current_element[1])
            => /\ OnlyChanges(current_element[1])
               /\ Attributes(global_e'[current_element[1]]) =
                    Attributes(global_e[current_element[1]])
               /\ UNCHANGED <<global_n, global_et>>
               /\ HasBadNodeToken(line)
                  => UNCHANGED <<global_n, global_e, global_et, current_element,
                                 current_type, current_mat, current_real>>)
      ]_vars

\* element 7 was given attributes, then nodes, then other attributes
C20_Witness ==
    /\ pc = "get_faces"
    /\ file = <<EN_Attr7, EN_Node, EN_AttrNew>>
    /\ global_e = (7 :> <<5, 8, 6, 1, 2, 3, 4>>)

\* the count the EBLOCK header of the file declares
EblockCount(f) == IntAt(Tokens(f[EblockAt(f)]), 3)

\* the element number of a record: its 11th field of 8 characters
RecordNumber(record) == int(SubSeq(record, 81, 88))

\* C21: the count in the EBLOCK header the writer emits is the number of
\* records between the header and the line -1, and the records' element
\* numbers are 1, 2, ..., count in this order.
C21_DeclaredCount ==
    EblockWritten
    => /\ EblockCount(file).ok
       /\ EblockCount(file).val = Len(EblockRecords(file))
       /\ \A i \in 1..Len(EblockRecords(file)) :
            /\ RecordNumber(EblockRecords(file)[i]).ok
            /\ RecordNumber(EblockRecords(file)[i]).val = i

====
